---- MODULE Spec2Model ----
(***************************************************************************)
(* Document ingestion and OCR extraction pipeline.                         *)
(*                                                                         *)
(*   src/src/processors/document_processor.py   DocumentProcessor          *)
(*   src/src/ui/streamlit_app.py                process_files,             *)
(*                                              process_zip_file,          *)
(*                                              combine_extracted_content  *)
(*                                                                         *)
(* A Python str is a sequence of one-character strings.  A Python dict is  *)
(* a record whose DOMAIN is the set of keys present, so that a missing key *)
(* ('error', 'file_name') is a field that is not in the DOMAIN.  An        *)
(* exception leaving a function is the record [raised |-> message].        *)
(***************************************************************************)
EXTENDS Integers, Sequences, FiniteSets, TLC

VARIABLES
    \* ---- DocumentProcessor._process_image, one call ----
    ocr_pc,             \* "idle" | "imread" | "loop" | "returned"
    image,              \* what cv2.imread returned: [loaded, shape]
    config_idx,         \* index into ocr_configs of the next configuration
    best_text,
    best_confidence,
    attempt,            \* what the OCR engine did for the last configuration
    all_raised,         \* every configuration so far raised
    all_zero,           \* every configuration so far completed with confidence 0
    ocr_result,         \* the dict _process_image returned
    \* ---- process_files, one batch ----
    pc,                 \* "idle" | "next_file" | "tmp_saved" | "unlink" | "combined" | "aborted"
                        \* | "zip_dir" | "zip_walk" | "zip_raised" inside process_zip_file
    uploaded_files,     \* the batch, in submission order
    file_idx,           \* position in uploaded_files of the file being processed
    tmp_file_path,      \* path of the temporary file of the current upload
    tmp_files,          \* temporary files that exist on disk
    temp_dir,           \* path of the scratch directory of the current archive
    temp_dirs,          \* scratch directories that exist on disk, with their files
    all_content,        \* results collected so far
    origin,             \* for each entry of all_content, the position of the upload it came from
    failed,             \* positions whose processing failed
    abort_cause,        \* what reached the except clause of process_files
    combined_content,   \* the corpus
    \* ---- one call of an extractor ----
    call,               \* "idle", or the extractor that is called
    arg,                \* the file it is called with
    ret,                \* the dict it returned
    local               \* the local variables of a call that takes several steps

ocr_vars == <<ocr_pc, image, config_idx, best_text, best_confidence, attempt,
              all_raised, all_zero, ocr_result>>

batch_vars == <<pc, uploaded_files, file_idx, tmp_file_path, tmp_files, temp_dir,
                temp_dirs, all_content, origin, failed, abort_cause, combined_content>>

call_vars == <<call, arg, ret, local>>

vars == <<ocr_vars, batch_vars, call_vars>>

----------------------------------------------------------------------------
(* Bounds of the model *)

\* the most tokens image_to_data reports for one configuration
MaxTokens == 2

\* the most files in one batch
MaxFiles == 2

\* the longest text file, in bytes
MaxBytes == 3

\* the most table rows of a word-processor document
MaxRows == 2

\* the most leaf parts of an email message
MaxParts == 2

\* the most pages of a PDF
MaxPages == 3

\* the most fragments of an OCR text
MaxFragments == 3

\* the largest height and width of an image, in pixels
MaxDim == 310

----------------------------------------------------------------------------
(* Python str and list primitives *)

Whitespace == {" ", "\n", "\t"}

None == [none |-> TRUE]

RECURSIVE lstrip(_)
lstrip(s) ==
    IF s # <<>> /\ Head(s) \in Whitespace THEN lstrip(Tail(s)) ELSE s

RECURSIVE rstrip(_)
rstrip(s) ==
    IF s # <<>> /\ s[Len(s)] \in Whitespace THEN rstrip(SubSeq(s, 1, Len(s) - 1)) ELSE s

\* str.strip()
strip(s) == rstrip(lstrip(s))

\* sep.join(parts)
RECURSIVE join(_, _)
join(sep, parts) ==
    IF parts = <<>> THEN <<>>
    ELSE IF Len(parts) = 1 THEN parts[1]
    ELSE parts[1] \o sep \o join(sep, Tail(parts))

\* str.replace(old, new): leftmost non-overlapping occurrences
RECURSIVE replace(_, _, _)
replace(s, old, new) ==
    IF Len(s) < Len(old) THEN s
    ELSE IF SubSeq(s, 1, Len(old)) = old
         THEN new \o replace(SubSeq(s, Len(old) + 1, Len(s)), old, new)
         ELSE <<Head(s)>> \o replace(Tail(s), old, new)

\* the first word of a string that starts with a non-whitespace character
RECURSIVE first_word(_)
first_word(s) ==
    IF s = <<>> \/ Head(s) \in Whitespace THEN <<>>
    ELSE <<Head(s)>> \o first_word(Tail(s))

\* str.split(): the maximal runs of non-whitespace characters
RECURSIVE split(_)
split(s) ==
    LET t == lstrip(s)
    IN  IF t = <<>> THEN <<>>
        ELSE LET w == first_word(t)
             IN  <<w>> \o split(SubSeq(t, Len(w) + 1, Len(t)))

----------------------------------------------------------------------------
(* DocumentProcessor._clean_ocr_text *)

\* a dict in which the correction of 'Arnount' is the misreading 'Am0unt'
corrections_chained == <<
    << <<"g","a","t","e">>, <<"d","a","t","e">> >>,
    << <<"B","e","n","e","t","i","c","i","a","r","y">>, <<"B","e","n","e","f","i","c","i","a","r","y">> >>,
    << <<"B","e","n","e",":","i","c","i","a","r","y">>, <<"B","e","n","e","f","i","c","i","a","r","y">> >>,
    << <<"B","e","n","e"," ","f","i","c","i","a","r","y">>, <<"B","e","n","e","f","i","c","i","a","r","y">> >>,
    << <<"A","r","n","o","u","n","t">>, <<"A","m","0","u","n","t">> >>,
    << <<"A","m","0","u","n","t">>, <<"A","m","o","u","n","t">> >>,
    << <<"V","a","|","u","e">>, <<"V","a","l","u","e">> >>,
    << <<"V","4","l","u","e">>, <<"V","a","l","u","e">> >> >>

\* the corrections dict, in insertion order (the order dict.items() iterates)
corrections == <<
    << <<"g","a","t","e">>, <<"d","a","t","e">> >>,
    << <<"B","e","n","e","t","i","c","i","a","r","y">>, <<"B","e","n","e","f","i","c","i","a","r","y">> >>,
    << <<"B","e","n","e",":","i","c","i","a","r","y">>, <<"B","e","n","e","f","i","c","i","a","r","y">> >>,
    << <<"B","e","n","e"," ","f","i","c","i","a","r","y">>, <<"B","e","n","e","f","i","c","i","a","r","y">> >>,
    << <<"A","r","n","o","u","n","t">>, <<"A","m","o","u","n","t">> >>,
    << <<"A","m","0","u","n","t">>, <<"A","m","o","u","n","t">> >>,
    << <<"V","a","|","u","e">>, <<"V","a","l","u","e">> >>,
    << <<"V","4","l","u","e">>, <<"V","a","l","u","e">> >> >>

RECURSIVE apply_corrections(_, _)
apply_corrections(text, cs) ==
    IF cs = <<>> THEN text
    ELSE apply_corrections(replace(text, cs[1][1], cs[1][2]), Tail(cs))

clean_ocr_text(text) ==
    IF text = <<>> THEN <<>>
    ELSE join(<<" ">>, split(apply_corrections(text, corrections)))

----------------------------------------------------------------------------
(* DocumentProcessor._process_image: the OCR selection loop *)

ocr_configs == <<"--oem 3 --psm 6", "--oem 3 --psm 8", "--oem 3 --psm 7",
                 "--oem 3 --psm 11", "--oem 3 --psm 13">>

\* per-token confidences image_to_data reports: -1 for a box without a word
TokenConfs == {-1, 0, 60, 100}

ConfLists == UNION {[1..n -> TokenConfs] : n \in 0..MaxTokens}

\* what image_to_string returns, before .strip()
RawTexts == { <<>>,
              <<"c","d"," ">>,
              <<"g","a","t","e"," "," ","x","\n">> }

\* One configuration's run of the engine: the call that raised, if any
\* (int(conf) raising on a token counts with image_to_data), the token
\* confidences and the recognized text.
Attempts ==
    [raises : {"none"}, conf : ConfLists, text : RawTexts]
    \cup [raises : {"preprocess", "image_to_data", "image_to_string"},
          conf : {<<>>}, text : {<<>>}]

\* A confidence is the exact quotient num/den, den > 0.
Zero == [num |-> 0, den |-> 1]

Gt(a, b) == a.num * b.den > b.num * a.den

RECURSIVE sum(_)
sum(xs) == IF xs = <<>> THEN 0 ELSE Head(xs) + sum(Tail(xs))

IsPositive(c) == c > 0

\* the mean over every token, without the filter "> 0"
avg_confidence_unfiltered(conf) ==
    IF conf # <<>> THEN [num |-> sum(conf), den |-> Len(conf)] ELSE Zero

\* lines 194-195
avg_confidence(conf) ==
    LET confidences == SelectSeq(conf, IsPositive)
    IN  IF confidences # <<>>
        THEN [num |-> sum(confidences), den |-> Len(confidences)]
        ELSE Zero

\* the selection rule with the length test reversed
KeepBestShorter(best, a) ==
    IF a.raises # "none" THEN best
    ELSE LET avg  == avg_confidence(a.conf)
             text == strip(a.text)
         IN  IF Gt(avg, best.confidence) /\ Len(text) < Len(best.text)
             THEN [text |-> text, confidence |-> avg]
             ELSE best

\* the selection rule by confidence alone
KeepBestByConfidence(best, a) ==
    IF a.raises # "none" THEN best
    ELSE LET avg  == avg_confidence(a.conf)
             text == strip(a.text)
         IN  IF Gt(avg, best.confidence)
             THEN [text |-> text, confidence |-> avg]
             ELSE best

\* a configuration that raises discards the best found so far
KeepBestResetOnRaise(best, a) ==
    IF a.raises # "none" THEN [text |-> <<>>, confidence |-> [num |-> 0, den |-> 1]]
    ELSE LET avg  == avg_confidence(a.conf)
             text == strip(a.text)
         IN  IF Gt(avg, best.confidence) /\ Len(text) > Len(best.text)
             THEN [text |-> text, confidence |-> avg]
             ELSE best

\* the selection rule with "or" in place of "and"
KeepBestOr(best, a) ==
    IF a.raises # "none" THEN best
    ELSE LET avg  == avg_confidence(a.conf)
             text == strip(a.text)
         IN  IF Gt(avg, best.confidence) \/ Len(text) > Len(best.text)
             THEN [text |-> text, confidence |-> avg]
             ELSE best

\* lines 187-207: one iteration of the loop, from the current best
KeepBest(best, a) ==
    IF a.raises # "none" THEN best
    ELSE LET avg  == avg_confidence(a.conf)
             text == strip(a.text)
         IN  IF Gt(avg, best.confidence) /\ Len(text) > Len(best.text)
             THEN [text |-> text, confidence |-> avg]
             ELSE best

\* a seed no configuration can beat
InitialBestHigh == [text |-> <<>>, confidence |-> [num |-> 100, den |-> 1]]

\* lines 183-184
InitialBest == [text |-> <<>>, confidence |-> Zero]

RECURSIVE ocr_loop(_, _)
ocr_loop(best, attempts) ==
    IF attempts = <<>> THEN best
    ELSE ocr_loop(KeepBest(best, Head(attempts)), Tail(attempts))

\* lines 209-217
image_result(best, shape) ==
    [content        |-> clean_ocr_text(best.text),
     image_size     |-> shape,
     ocr_confidence |-> best.confidence,
     ocr_method     |-> "multi-config"]

\* lines 219-221
image_error(msg) == [content |-> <<>>, error |-> msg]

\* _process_image on a file for which imread gives `loaded` and the engine
\* gives `attempts`, one per configuration
process_image(data) ==
    IF ~data.loaded THEN image_error("Could not load image")
    ELSE image_result(ocr_loop(InitialBest, data.attempts), data.shape)

Images == [loaded : BOOLEAN, shape : {<<150, 150>>}]

CallIdle ==
    /\ call = "idle"
    /\ arg = None
    /\ ret = None
    /\ local = None

BatchIdle ==
    /\ pc = "idle"
    /\ uploaded_files = <<>>
    /\ file_idx = 0
    /\ tmp_file_path = None
    /\ tmp_files = {}
    /\ temp_dir = None
    /\ temp_dirs = {}
    /\ all_content = <<>>
    /\ origin = <<>>
    /\ failed = {}
    /\ abort_cause = "none"
    /\ combined_content = None

InitOCR ==
    /\ ocr_pc = "imread"
    /\ image \in Images
    /\ config_idx = 1
    /\ best_text = <<>>
    /\ best_confidence = Zero
    /\ attempt = None
    /\ all_raised = TRUE
    /\ all_zero = TRUE
    /\ ocr_result = None
    /\ BatchIdle
    /\ CallIdle

\* lines 170-184
LoadImage ==
    /\ ocr_pc = "imread"
    /\ IF image.loaded
       THEN /\ ocr_pc' = "loop"
            /\ ocr_result' = ocr_result
       ELSE /\ ocr_pc' = "returned"
            /\ ocr_result' = image_error("Could not load image")
    /\ best_text' = InitialBest.text
    /\ best_confidence' = InitialBest.confidence
    /\ UNCHANGED <<image, config_idx, attempt, all_raised, all_zero>>
    /\ UNCHANGED <<batch_vars, call_vars>>

\* lines 186-207
RunConfig ==
    /\ ocr_pc = "loop"
    /\ config_idx <= Len(ocr_configs)
    /\ \E a \in Attempts :
        LET best == KeepBest([text |-> best_text, confidence |-> best_confidence], a)
        IN  /\ attempt' = a
            /\ best_text' = best.text
            /\ best_confidence' = best.confidence
            /\ all_raised' = (all_raised /\ a.raises # "none")
            /\ all_zero' = (all_zero /\ a.raises = "none"
                                      /\ avg_confidence(a.conf).num = 0)
    /\ config_idx' = config_idx + 1
    /\ UNCHANGED <<ocr_pc, image, ocr_result>>
    /\ UNCHANGED <<batch_vars, call_vars>>

\* lines 209-217
ReturnImage ==
    /\ ocr_pc = "loop"
    /\ config_idx > Len(ocr_configs)
    /\ ocr_result' = image_result([text |-> best_text, confidence |-> best_confidence],
                                  image.shape)
    /\ ocr_pc' = "returned"
    /\ UNCHANGED <<image, config_idx, best_text, best_confidence, attempt, all_raised, all_zero>>
    /\ UNCHANGED <<batch_vars, call_vars>>

NextOCR == LoadImage \/ RunConfig \/ ReturnImage

SpecOCR == InitOCR /\ [][NextOCR]_vars

----------------------------------------------------------------------------
(* Per-format extractors.  `data` is what the parsing library finds in the  *)
(* file: whether it opens, and the paragraphs, pages, rows, bytes it holds. *)

\* string literals of the extractors
SEPBAR == <<" ","|"," ">>

DIGITS == <<"1","2","3","4","5","6","7","8","9">>

PAGE == <<"P","a","g","e"," ">>

OCRNEEDED == <<"[","O","C","R"," ","p","r","o","c","e","s","s","i","n","g"," ","n","e","e","d","e","d","]">>

SUBJECT == <<"S","u","b","j","e","c","t",":"," ">>

FROM == <<"F","r","o","m",":"," ">>

TO == <<"T","o",":"," ">>

DATE == <<"D","a","t","e",":"," ">>

BODY == <<"B","o","d","y",":","\n">>

nonempty(s) == s # <<>>

RECURSIVE map_strip(_)
map_strip(xs) == IF xs = <<>> THEN <<>> ELSE <<strip(Head(xs))>> \o map_strip(Tail(xs))

RECURSIVE flatten(_)
flatten(xss) == IF xss = <<>> THEN <<>> ELSE Head(xss) \o flatten(Tail(xss))

\* lines 404-419: OCR of one embedded image, "" when it cannot be decoded
\* or the engine raises.  The image is what _process_image is given:
\* imdecode gives `loaded`, and image_to_string is called once, with the
\* first of ocr_configs, for which the engine gives attempts[1]; no call of
\* image_to_data is made.
process_image_data(blob) ==
    IF ~blob.loaded THEN <<>>
    ELSE IF blob.attempts[1].raises \in {"preprocess", "image_to_string"} THEN <<>>
    ELSE strip(blob.attempts[1].text)

\* the rows of one table, the empty ones too
RECURSIVE table_rows_keep_empty(_)
table_rows_keep_empty(rows) ==
    IF rows = <<>> THEN <<>>
    ELSE <<join(SEPBAR, map_strip(Head(rows)))>> \o table_rows_keep_empty(Tail(rows))

\* lines 84-88: the rows of one table
RECURSIVE table_rows(_)
table_rows(rows) ==
    IF rows = <<>> THEN <<>>
    ELSE LET row_data == map_strip(Head(rows))
         IN  (IF SelectSeq(row_data, nonempty) # <<>>
              THEN <<join(SEPBAR, row_data)>> ELSE <<>>)
             \o table_rows(Tail(rows))

RECURSIVE all_table_rows(_)
all_table_rows(tables) ==
    IF tables = <<>> THEN <<>>
    ELSE table_rows(Head(tables)) \o all_table_rows(Tail(tables))

\* lines 91-101: the loop over the relationships stops at the first one
\* whose target part cannot be read, keeping what it has collected
RECURSIVE embedded_image_text(_, _)
embedded_image_text(rels, acc) ==
    IF rels = <<>> THEN acc
    ELSE LET rel == Head(rels)
         IN  IF ~rel.image THEN embedded_image_text(Tail(rels), acc)
             ELSE IF rel.external THEN acc
             ELSE LET ocr_text == process_image_data(rel.blob)
                  IN  embedded_image_text(Tail(rels),
                          IF ocr_text # <<>> THEN Append(acc, ocr_text) ELSE acc)

is_external_image(rel) == rel.image /\ rel.external

\* _process_docx without the try of lines 92-101: a part that cannot be
\* read raises out of the extractor
process_docx_no_try(data) ==
    IF ~data.opens THEN [raised |-> "PackageNotFoundError"]
    ELSE IF SelectSeq(data.rels, is_external_image) # <<>> THEN [raised |-> "ValueError"]
    ELSE LET text_content == SelectSeq(map_strip(data.paragraphs), nonempty)
         IN  [content          |-> join(<<"\n">>, text_content),
              tables           |-> all_table_rows(data.tables),
              image_text       |-> embedded_image_text(data.rels, <<>>),
              total_paragraphs |-> Len(text_content),
              total_tables     |-> Len(data.tables)]

\* lines 72-109
process_docx(data) ==
    IF ~data.opens THEN [raised |-> "PackageNotFoundError"]
    ELSE LET text_content == SelectSeq(map_strip(data.paragraphs), nonempty)
         IN  [content          |-> join(<<"\n">>, text_content),
              tables           |-> all_table_rows(data.tables),
              image_text       |-> embedded_image_text(data.rels, <<>>),
              total_paragraphs |-> Len(text_content),
              total_tables     |-> Len(data.tables)]

\* str(page_num + 1)
page_number(k) == <<DIGITS[k]>>

\* the pages without a text layer left out
RECURSIVE pdf_pages_skip_blank(_, _)
pdf_pages_skip_blank(pages, k) ==
    IF k > Len(pages) THEN <<>>
    ELSE (IF strip(pages[k]) # <<>>
          THEN <<PAGE \o page_number(k) \o <<":", "\n">> \o pages[k]>>
          ELSE <<>>)
         \o pdf_pages_skip_blank(pages, k + 1)

\* lines 119-129
RECURSIVE pdf_pages(_, _)
pdf_pages(pages, k) ==
    IF k > Len(pages) THEN <<>>
    ELSE (IF strip(pages[k]) # <<>>
          THEN <<PAGE \o page_number(k) \o <<":", "\n">> \o pages[k]>>
          ELSE <<PAGE \o page_number(k) \o <<":", " ">> \o OCRNEEDED>>)
         \o pdf_pages(pages, k + 1)

\* lines 111-138
process_pdf(data) ==
    IF ~data.opens THEN [content |-> <<>>, error |-> "PdfReadError"]
    ELSE [content     |-> join(<<"\n", "\n">>, pdf_pages(data.pages, 1)),
          total_pages |-> Len(data.pages)]

\* lines 151-154: the rows of one sheet; a cell is None or [value |-> string]
cell_str(cell) == IF cell = None THEN <<>> ELSE cell.value

RECURSIVE map_cell_str(_)
map_cell_str(row) ==
    IF row = <<>> THEN <<>> ELSE <<cell_str(Head(row))>> \o map_cell_str(Tail(row))

is_value(cell) == cell # None

RECURSIVE sheet_rows(_)
sheet_rows(rows) ==
    IF rows = <<>> THEN <<>>
    ELSE (IF SelectSeq(Head(rows), is_value) # <<>>
          THEN <<join(SEPBAR, map_cell_str(Head(rows)))>> ELSE <<>>)
         \o sheet_rows(Tail(rows))

RECURSIVE map_sheet_rows(_)
map_sheet_rows(sheets) ==
    IF sheets = <<>> THEN <<>>
    ELSE <<sheet_rows(Head(sheets))>> \o map_sheet_rows(Tail(sheets))

\* lines 140-164
process_xlsx(data) ==
    IF ~data.opens THEN [raised |-> "BadZipFile"]
    ELSE [content      |-> join(<<"\n">>, flatten(map_sheet_rows(data.sheets))),
          sheets       |-> map_sheet_rows(data.sheets),
          total_sheets |-> Len(data.sheets)]

\* The bytes of a text file are numbers in 0..255.  A codec gives
\* [ok |-> TRUE, text |-> ...] or, for bytes it cannot decode (the
\* UnicodeDecodeError), DecodeError.
DecodeError == [ok |-> FALSE]

Decoded(text) == [ok |-> TRUE, text |-> text]

\* the character of a code point below 256
chr(b) ==
    CASE b = 10 -> "\n"
      [] b = 65 -> "A"
      [] b = 233 -> "U+00E9"
      [] b = 129 -> "U+0081"
      [] b = 193 -> "U+00C1"
      [] b = 195 -> "U+00C3"
      [] b = 169 -> "U+00A9"

\* UTF-8: a byte below 0x80 is itself, 0xC3 and a continuation byte
\* 0x80..0xBF make the code point 0xC0 + (byte - 0x80), any other byte is
\* invalid where it stands
RECURSIVE decode_utf8(_)
decode_utf8(bytes) ==
    IF bytes = <<>> THEN Decoded(<<>>)
    ELSE IF bytes[1] < 128
         THEN LET rest == decode_utf8(Tail(bytes))
              IN  IF rest.ok THEN Decoded(<<chr(bytes[1])>> \o rest.text) ELSE DecodeError
    ELSE IF bytes[1] = 195 /\ Len(bytes) >= 2 /\ bytes[2] >= 128 /\ bytes[2] < 192
         THEN LET rest == decode_utf8(Tail(Tail(bytes)))
              IN  IF rest.ok THEN Decoded(<<chr(bytes[2] + 64)>> \o rest.text)
                  ELSE DecodeError
    ELSE DecodeError

RECURSIVE decode_bytewise(_)
decode_bytewise(bytes) ==
    IF bytes = <<>> THEN <<>> ELSE <<chr(Head(bytes))>> \o decode_bytewise(Tail(bytes))

\* the bytes cp1252 leaves undefined
Cp1252Undefined == {129, 141, 143, 144, 157}

is_cp1252_undefined(b) == b \in Cp1252Undefined

\* bytes.decode(encoding); latin-1 and iso-8859-1 name one codec, which
\* maps every byte to the code point of the same number
decode(encoding, bytes) ==
    CASE encoding = "utf-8" -> decode_utf8(bytes)
      [] encoding \in {"latin-1", "iso-8859-1"} -> Decoded(decode_bytewise(bytes))
      [] encoding = "cp1252" ->
            IF SelectSeq(bytes, is_cp1252_undefined) # <<>> THEN DecodeError
            ELSE Decoded(decode_bytewise(bytes))

is_newline(c) == c = "\n"

\* len(content.split('\n'))
line_count(content) == Len(SelectSeq(content, is_newline)) + 1

\* the fallback loop without 'encoding_used' in what it returns
RECURSIVE txt_fallback_no_name(_, _)
txt_fallback_no_name(encodings, bytes) ==
    IF encodings = <<>> THEN [content |-> <<>>, error |-> "Could not decode file"]
    ELSE LET file == decode(Head(encodings), bytes)
         IN  IF ~file.ok THEN txt_fallback_no_name(Tail(encodings), bytes)
             ELSE [content    |-> file.text,
                   line_count |-> line_count(file.text)]

\* lines 259-273
RECURSIVE txt_fallback(_, _)
txt_fallback(encodings, bytes) ==
    IF encodings = <<>> THEN [content |-> <<>>, error |-> "Could not decode file"]
    ELSE LET file == decode(Head(encodings), bytes)
         IN  IF ~file.ok THEN txt_fallback(Tail(encodings), bytes)
             ELSE [content       |-> file.text,
                   encoding_used |-> Head(encodings),
                   line_count    |-> line_count(file.text)]

\* the fallback loop starting with cp1252
process_txt_cp1252_first(data) ==
    LET file == decode("utf-8", data.bytes)
    IN  IF file.ok
        THEN [content |-> file.text, line_count |-> line_count(file.text)]
        ELSE txt_fallback(<<"cp1252", "latin-1", "iso-8859-1">>, data.bytes)

\* lines 249-273
process_txt(data) ==
    LET file == decode("utf-8", data.bytes)
    IN  IF file.ok
        THEN [content |-> file.text, line_count |-> line_count(file.text)]
        ELSE txt_fallback(<<"latin-1", "cp1252", "iso-8859-1">>, data.bytes)

is_text_plain(part) == part.content_type = "text/plain"

RECURSIVE concat_contents(_)
concat_contents(parts) ==
    IF parts = <<>> THEN <<>> ELSE Head(parts).content \o concat_contents(Tail(parts))

\* lines 275-307: `parts` is msg.walk() for a multipart message and the
\* message itself otherwise
process_eml(data) ==
    IF ~data.parses THEN [content |-> <<>>, error |-> "MessageParseError"]
    ELSE LET body == IF data.multipart
                     THEN concat_contents(SelectSeq(data.parts, is_text_plain))
                     ELSE data.parts[1].content
         IN  [content   |-> SUBJECT \o data.subject \o <<"\n">> \o FROM \o data.sender
                            \o <<"\n">> \o TO \o data.recipient \o <<"\n">> \o DATE
                            \o data.date \o <<"\n", "\n">> \o BODY \o body,
              subject   |-> data.subject,
              sender    |-> data.sender,
              recipient |-> data.recipient]

\* lines 309-326: `dumps` is json.dumps of the parsed value, never empty
process_json(data) ==
    IF ~data.parses THEN [content |-> <<>>, error |-> "JSONDecodeError"]
    ELSE [content |-> data.dumps, keys |-> data.keys]

\* lines 328-345: `text` is the text-only serialisation of the tree
process_xml(data) ==
    IF ~data.parses THEN [content |-> <<>>, error |-> "ParseError"]
    ELSE [content |-> data.text, root_tag |-> data.root_tag,
          element_count |-> data.element_count]

\* lines 347-364: `to_string` is the rendering of the data frame
process_csv(data) ==
    IF ~data.parses THEN [content |-> <<>>, error |-> "EmptyDataError"]
    ELSE [content |-> data.to_string, columns |-> data.columns,
          row_count |-> data.row_count, column_count |-> Len(data.columns)]

----------------------------------------------------------------------------
(* DocumentProcessor.process_file *)

\* lines 30-42
supported_formats ==
    [e \in {".docx", ".pdf", ".xlsx", ".png", ".jpg", ".jpeg", ".txt", ".eml",
            ".json", ".xml", ".csv"} |->
        CASE e = ".docx" -> "_process_docx"
          [] e = ".pdf"  -> "_process_pdf"
          [] e = ".xlsx" -> "_process_xlsx"
          [] e \in {".png", ".jpg", ".jpeg"} -> "_process_image"
          [] e = ".txt"  -> "_process_txt"
          [] e = ".eml"  -> "_process_eml"
          [] e = ".json" -> "_process_json"
          [] e = ".xml"  -> "_process_xml"
          [] e = ".csv"  -> "_process_csv"]

\* str.lower() on the extensions of the model
lower(ext) ==
    CASE ext = ".TXT" -> ".txt"
      [] ext = ".PNG" -> ".png"
      [] ext = ".ZIP" -> ".zip"
      [] OTHER -> ext

\* line 54: the call of the registered extractor
call_extractor(extractor, data) ==
    CASE extractor = "_process_docx"  -> process_docx(data)
      [] extractor = "_process_pdf"   -> process_pdf(data)
      [] extractor = "_process_xlsx"  -> process_xlsx(data)
      [] extractor = "_process_image" -> process_image(data)
      [] extractor = "_process_txt"   -> process_txt(data)
      [] extractor = "_process_eml"   -> process_eml(data)
      [] extractor = "_process_json"  -> process_json(data)
      [] extractor = "_process_xml"   -> process_xml(data)
      [] extractor = "_process_csv"   -> process_csv(data)

\* lines 63-70
except_result(e, file_path, file_ext) ==
    [content |-> <<>>, error |-> e, file_path |-> file_path, file_type |-> file_ext]

\* process_file without its except clause: what the extractor raises leaves
\* the function
process_file_no_except(file_path, data) ==
    LET file_ext == lower(file_path.ext)
    IN  IF file_ext \notin DOMAIN supported_formats
        THEN [raised |-> "Unsupported file format"]
        ELSE LET result == call_extractor(supported_formats[file_ext], data)
             IN  IF "raised" \in DOMAIN result THEN result
                 ELSE [file_path |-> file_path,
                       file_type |-> file_ext,
                       file_name |-> [stem |-> file_path.stem, ext |-> file_path.ext]]
                      @@ result

\* process_file handing a file of an unregistered extension to the text
\* extractor
process_file_default_txt(file_path, data) ==
    LET file_ext == lower(file_path.ext)
        result   == IF file_ext \in DOMAIN supported_formats
                    THEN call_extractor(supported_formats[file_ext], data)
                    ELSE IF "bytes" \in DOMAIN data THEN process_txt(data)
                    ELSE [raised |-> "OSError"]
    IN  IF "raised" \in DOMAIN result
        THEN except_result(result.raised, file_path, file_ext)
        ELSE [file_path |-> file_path,
              file_type |-> file_ext,
              file_name |-> [stem |-> file_path.stem, ext |-> file_path.ext]]
             @@ result

\* lines 44-70.  A path is [dir, stem, ext]; Path(p).suffix is p.ext and
\* Path(p).name is [stem, ext].
process_file(file_path, data) ==
    LET file_ext == lower(file_path.ext)
    IN  IF file_ext \notin DOMAIN supported_formats
        THEN except_result("Unsupported file format", file_path, file_ext)
        ELSE LET result == call_extractor(supported_formats[file_ext], data)
             IN  IF "raised" \in DOMAIN result
                 THEN except_result(result.raised, file_path, file_ext)
                 ELSE [file_path |-> file_path,
                       file_type |-> file_ext,
                       file_name |-> [stem |-> file_path.stem, ext |-> file_path.ext]]
                      @@ result

----------------------------------------------------------------------------
(* streamlit_app.py: process_zip_file, combine_extracted_content *)

\* dict.get(key, default)
get(d, key, default) == IF key \in DOMAIN d THEN d[key] ELSE default

\* the result put at the front of the list
append_result_front(content_list, result) == <<result>> \o content_list

\* line 200: all_content.append(result)
append_result(content_list, result) == Append(content_list, result)

\* line 191: all_content.extend(extracted_content)
extend_results(content_list, extracted_content) == content_list \o extracted_content

\* The orders in which os.walk can list the extracted files: top-down, the
\* files of the archive's root before those of a subdirectory, the files of
\* one directory in any order.
WalkOrders(members) ==
    {f \in [1..Len(members) -> 1..Len(members)] :
        /\ \A i, j \in 1..Len(members) : i # j => f[i] # f[j]
        /\ \A i, j \in 1..Len(members) :
              (i < j /\ members[f[j]].dir = "") => members[f[i]].dir = ""}

\* a walk that hands every extracted file to process_file
RECURSIVE walk_results_unfiltered(_, _, _)
walk_results_unfiltered(members, order, k) ==
    IF k > Len(members) THEN <<>>
    ELSE LET file      == members[order[k]]
             file_path == [dir |-> "temp_dir" \o file.dir, stem |-> file.name.stem,
                           ext |-> file.name.ext]
         IN  <<process_file(file_path, file.data)>>
             \o walk_results_unfiltered(members, order, k + 1)

\* a walk that stays in the directory of the archive's root
RECURSIVE walk_results_top(_, _, _)
walk_results_top(members, order, k) ==
    IF k > Len(members) THEN <<>>
    ELSE LET file      == members[order[k]]
             file_path == [dir |-> "temp_dir" \o file.dir, stem |-> file.name.stem,
                           ext |-> file.name.ext]
         IN  (IF file.dir = "" /\ lower(file_path.ext) \in DOMAIN supported_formats
              THEN <<process_file(file_path, file.data)>> ELSE <<>>)
             \o walk_results_top(members, order, k + 1)

\* lines 253-258: the walk over the extracted files, in the order `order`
RECURSIVE walk_results(_, _, _)
walk_results(members, order, k) ==
    IF k > Len(members) THEN <<>>
    ELSE LET file      == members[order[k]]
             file_path == [dir |-> "temp_dir" \o file.dir, stem |-> file.name.stem,
                           ext |-> file.name.ext]
         IN  (IF lower(file_path.ext) \in DOMAIN supported_formats
              THEN <<process_file(file_path, file.data)>> ELSE <<>>)
             \o walk_results(members, order, k + 1)

is_raised(r) == "raised" \in DOMAIN r

\* lines 243-260: the list of results, or the exception that leaves the
\* function (zipfile.ZipFile or extractall raising, or process_file raising)
process_zip_file(zip_file, order) ==
    IF ~zip_file.data.opens THEN [raised |-> "BadZipFile"]
    ELSE LET extracted_content == walk_results(zip_file.data.members, order, 1)
         IN  IF SelectSeq(extracted_content, is_raised) # <<>>
             THEN [raised |-> "process_file"]
             ELSE [results |-> extracted_content]

\* The corpus is a string; it is kept as the sequence of its pieces: the
\* header line with the name in it, a content, the Tables and Image Text
\* blocks with their rows, and the blank line that joins two blocks.
BlankLine == [piece |-> "\n\n"]

\* lines 266-277: the blocks one entry appends to combined_text
entry_blocks(content) ==
    (IF get(content, "content", <<>>) # <<>>
     THEN << <<[piece |-> "header", name |-> get(content, "file_name", "Unknown")],
               [piece |-> "content", text |-> content.content]>> >>
     ELSE <<>>)
    \o (IF get(content, "tables", <<>>) # <<>>
        THEN << <<[piece |-> "tables", rows |-> content.tables]>> >>
        ELSE <<>>)
    \o (IF get(content, "image_text", <<>>) # <<>>
        THEN << <<[piece |-> "image_text", rows |-> content.image_text]>> >>
        ELSE <<>>)

RECURSIVE combined_text(_)
combined_text(content_list) ==
    IF content_list = <<>> THEN <<>>
    ELSE entry_blocks(Head(content_list)) \o combined_text(Tail(content_list))

\* lines 262-279
combine_extracted_content(content_list) ==
    join(<<BlankLine>>, combined_text(content_list))

----------------------------------------------------------------------------
(* The files of a batch *)

Name(stem, ext) == [stem |-> stem, ext |-> ext]

File(stem, ext, data) == [name |-> Name(stem, ext), data |-> data]

Member(dir, stem, ext, data) == [dir |-> dir, name |-> Name(stem, ext), data |-> data]

Ok(text, conf) == [raises |-> "none", conf |-> conf, text |-> text]

Raises(fn) == [raises |-> fn, conf |-> <<>>, text |-> <<>>]

Shape == <<150, 150>>

GATEX == <<"g","a","t","e"," "," ","x","\n">>

TxtReport == File("report", ".txt", [bytes |-> <<65, 10, 65>>])

TxtEmpty == File("notes", ".TXT", [bytes |-> <<>>])

TxtLatin == File("tmpa", ".txt", [bytes |-> <<65, 233>>])

BinBlob == File("blob", ".bin", [bytes |-> <<65>>])

PngAllRaise ==
    File("scan", ".png",
         [loaded |-> TRUE, shape |-> Shape,
          attempts |-> [k \in 1..Len(ocr_configs) |-> Raises("image_to_data")]])

JpgGood ==
    File("photo", ".jpg",
         [loaded |-> TRUE, shape |-> Shape,
          attempts |-> <<Ok(GATEX, <<90>>), Ok(<<"a","b">>, <<60, -1>>),
                         Raises("image_to_string"), Ok(<<>>, <<>>),
                         Ok(<<"c","d"," ">>, <<90, 90>>)>>])

PngUnreadable == File("bad", ".PNG", [loaded |-> FALSE, shape |-> Shape, attempts |-> <<>>])

PdfBroken == File("broken", ".pdf", [opens |-> FALSE, pages |-> <<>>])

PdfTwoPages == File("doc", ".pdf", [opens |-> TRUE, pages |-> << <<"A">>, <<" ">> >>])

DocxTablesOnly ==
    File("tables", ".docx",
         [opens |-> TRUE, paragraphs |-> << <<" ">> >>,
          tables |-> << << << <<"A">>, <<"B">> >>, << <<"C">>, <<"D">> >> >> >>,
          rels |-> <<>>])

DocxCorrupt ==
    File("corrupt", ".docx", [opens |-> FALSE, paragraphs |-> <<>>, tables |-> <<>>,
                              rels |-> <<>>])

DocxLetter ==
    File("letter", ".docx",
         [opens |-> TRUE, paragraphs |-> << <<"A"," ">>, <<>> >>,
          tables |-> << << << <<" ">>, <<>> >>, << <<"A">>, <<>> >> >> >>,
          rels |-> <<[image |-> FALSE, external |-> FALSE],
                     [image |-> TRUE, external |-> FALSE,
                      blob |-> [loaded |-> TRUE, shape |-> Shape,
                                attempts |-> [k \in 1..Len(ocr_configs) |->
                                                 Ok(<<"c","d"," ">>, <<90>>)]]],
                     [image |-> TRUE, external |-> TRUE]>>])

XlsxBook ==
    File("book", ".xlsx",
         [opens |-> TRUE,
          sheets |-> << << <<[value |-> <<"A">>], None>>, <<None, None>> >> >>])

EmlMail ==
    File("mail", ".eml",
         [parses |-> TRUE, subject |-> <<"A">>, sender |-> <<"A">>, recipient |-> <<"A">>,
          date |-> <<"A">>, multipart |-> TRUE,
          parts |-> <<[content_type |-> "multipart/alternative", content |-> <<>>],
                      [content_type |-> "text/plain", content |-> <<"A">>],
                      [content_type |-> "text/html", content |-> <<"<","p",">">>]>>])

JsonBad == File("data", ".json", [parses |-> FALSE])

XmlEmpty ==
    File("empty", ".xml", [parses |-> TRUE, text |-> <<>>, root_tag |-> "root",
                           element_count |-> 1])

CsvSheet ==
    File("rows", ".csv", [parses |-> TRUE, to_string |-> <<"A">>, columns |-> <<"A">>,
                          row_count |-> 0])

ZipBundle ==
    File("bundle", ".zip",
         [opens |-> TRUE,
          members |-> <<Member("", "a", ".txt", TxtReport.data),
                        Member("", "b", ".PNG", JpgGood.data),
                        Member("", "inner", ".zip",
                               [opens |-> TRUE,
                                members |-> <<Member("", "e", ".txt", TxtReport.data)>>]),
                        Member("/sub", "c", ".bin", BinBlob.data),
                        Member("/sub", "d", ".json", JsonBad.data)>>])

ZipCorrupt == File("bad", ".zip", [opens |-> FALSE, members |-> <<>>])

ZipUpper == File("upper", ".ZIP", [opens |-> TRUE, members |-> <<>>])

Documents ==
    {TxtReport, TxtEmpty, TxtLatin, BinBlob, PngAllRaise, JpgGood, PngUnreadable,
     PdfBroken, PdfTwoPages, DocxTablesOnly, DocxCorrupt, DocxLetter, XlsxBook,
     EmlMail, JsonBad, XmlEmpty, CsvSheet, ZipBundle, ZipCorrupt, ZipUpper}

Batches == UNION {[1..n -> Documents] : n \in 1..MaxFiles}

\* the names tempfile can draw; "tmpa" is also the name of an upload
TmpStems == {"tmpa", "tmpb"}

\* the names tempfile can draw for a directory
TempDirs == {"temp_dir"}

----------------------------------------------------------------------------
(* streamlit_app.py: process_files, up to the call of the generator *)

OCRIdle ==
    /\ ocr_pc = "idle"
    /\ image = None
    /\ config_idx = 0
    /\ best_text = <<>>
    /\ best_confidence = Zero
    /\ attempt = None
    /\ all_raised = TRUE
    /\ all_zero = TRUE
    /\ ocr_result = None

Init ==
    /\ pc = "next_file"
    /\ uploaded_files \in Batches
    /\ file_idx = 1
    /\ tmp_file_path = None
    /\ tmp_files = {}
    /\ temp_dir = None
    /\ temp_dirs = {}
    /\ all_content = <<>>
    /\ origin = <<>>
    /\ failed = {}
    /\ abort_cause = "none"
    /\ combined_content = None
    /\ OCRIdle
    /\ CallIdle

uploaded_file == uploaded_files[file_idx]

\* line 189: uploaded_file.name.endswith('.zip')
is_zip(file) == file.name.ext = ".zip"

\* the directory is kept when the block is left by an exception
cleanup_unless_raised(dirs, path, raised) ==
    IF raised THEN dirs ELSE {d \in dirs : d.path # path}

\* line 247: leaving the block of `with tempfile.TemporaryDirectory()`,
\* normally or by an exception, removes the directory and what is in it
cleanup(dirs, path, raised) == {d \in dirs : d.path # path}

\* line 250: what extractall has written into the directory `path`
extract_into(dirs, path, files) ==
    {IF d.path = path THEN [d EXCEPT !.files = files] ELSE d : d \in dirs}

\* lines 189-190, 247: an archive; process_zip_file creates its scratch
\* directory
MakeTempDir ==
    /\ pc = "next_file"
    /\ file_idx <= Len(uploaded_files)
    /\ is_zip(uploaded_file)
    /\ \E path \in TempDirs :
        /\ \A d \in temp_dirs : d.path # path
        /\ temp_dir' = [path |-> path]
        /\ temp_dirs' = temp_dirs \cup {[path |-> path, files |-> {}]}
    /\ pc' = "zip_dir"
    /\ UNCHANGED <<uploaded_files, file_idx, tmp_file_path, tmp_files, all_content,
                   origin, failed, abort_cause, combined_content>>
    /\ UNCHANGED <<ocr_vars, call_vars>>

\* lines 249-250: the archive is opened and extracted into the directory;
\* zipfile.ZipFile raises on what is not an archive, and extractall can
\* raise after it has written the first n files
ExtractAll ==
    /\ pc = "zip_dir"
    /\ \E n \in 0..Len(uploaded_file.data.members) :
        /\ ~uploaded_file.data.opens => n = 0
        /\ temp_dirs' = extract_into(temp_dirs, temp_dir.path, 1..n)
        /\ pc' = IF uploaded_file.data.opens /\ n = Len(uploaded_file.data.members)
                 THEN "zip_walk" ELSE "zip_raised"
    /\ UNCHANGED <<uploaded_files, file_idx, tmp_file_path, tmp_files, temp_dir,
                   all_content, origin, failed, abort_cause, combined_content>>
    /\ UNCHANGED <<ocr_vars, call_vars>>

\* lines 247-250, 239-241: the exception of ZipFile or extractall leaves the
\* `with` block, process_zip_file and the loop of process_files for the
\* except clause
RaiseFromZip ==
    /\ pc = "zip_raised"
    /\ temp_dirs' = cleanup(temp_dirs, temp_dir.path, TRUE)
    /\ pc' = "aborted"
    /\ abort_cause' = "archive"
    /\ failed' = failed \cup {file_idx}
    /\ UNCHANGED <<uploaded_files, file_idx, tmp_file_path, tmp_files, temp_dir,
                   all_content, origin, combined_content>>
    /\ UNCHANGED <<ocr_vars, call_vars>>

\* lines 253-260, 191: the walk over the extracted files; the `with` block
\* is left and the results are added to all_content
WalkZip ==
    /\ pc = "zip_walk"
    /\ \E order \in WalkOrders(uploaded_file.data.members) :
        LET extracted == process_zip_file(uploaded_file, order)
        IN  /\ temp_dirs' = cleanup(temp_dirs, temp_dir.path, is_raised(extracted))
            /\ IF is_raised(extracted)
               THEN /\ pc' = "aborted"
                    /\ abort_cause' = "process_file"
                    /\ failed' = failed \cup {file_idx}
                    /\ UNCHANGED <<file_idx, all_content, origin>>
               ELSE /\ all_content' = extend_results(all_content, extracted.results)
                    /\ origin' = extend_results(origin,
                                     [k \in 1..Len(extracted.results) |-> file_idx])
                    /\ file_idx' = file_idx + 1
                    /\ pc' = "next_file"
                    /\ UNCHANGED <<abort_cause, failed>>
    /\ UNCHANGED <<uploaded_files, tmp_file_path, tmp_files, temp_dir, combined_content>>
    /\ UNCHANGED <<ocr_vars, call_vars>>

\* lines 194-196: the temporary file is created under a fresh name with the
\* upload's suffix and the bytes are written to it; the write can fail
SaveUpload ==
    /\ pc = "next_file"
    /\ file_idx <= Len(uploaded_files)
    /\ ~is_zip(uploaded_file)
    /\ \E stem \in TmpStems, written \in BOOLEAN :
        LET path == [dir |-> "tmp", stem |-> stem, ext |-> uploaded_file.name.ext]
        IN  /\ path \notin tmp_files
            /\ tmp_files' = tmp_files \cup {path}
            /\ IF written
               THEN /\ tmp_file_path' = path
                    /\ pc' = "tmp_saved"
                    /\ abort_cause' = abort_cause
               ELSE /\ tmp_file_path' = tmp_file_path
                    /\ pc' = "aborted"
                    /\ abort_cause' = "write"
    /\ UNCHANGED <<uploaded_files, file_idx, temp_dir, temp_dirs, all_content, origin,
                   failed, combined_content>>
    /\ UNCHANGED <<ocr_vars, call_vars>>

\* lines 199-200
ProcessUpload ==
    /\ pc = "tmp_saved"
    /\ LET result == process_file(tmp_file_path, uploaded_file.data)
       IN  IF is_raised(result)
           THEN /\ pc' = "aborted"
                /\ abort_cause' = "process_file"
                /\ failed' = failed \cup {file_idx}
                /\ UNCHANGED <<all_content, origin>>
           ELSE /\ all_content' = append_result(all_content, result)
                /\ origin' = append_result(origin, file_idx)
                /\ failed' = IF "error" \in DOMAIN result THEN failed \cup {file_idx}
                             ELSE failed
                /\ pc' = "unlink"
                /\ abort_cause' = abort_cause
    /\ UNCHANGED <<uploaded_files, file_idx, tmp_file_path, tmp_files, temp_dir,
                   temp_dirs, combined_content>>
    /\ UNCHANGED <<ocr_vars, call_vars>>

\* line 203
UnlinkTmp ==
    /\ pc = "unlink"
    /\ tmp_files' = tmp_files \ {tmp_file_path}
    /\ file_idx' = file_idx + 1
    /\ pc' = "next_file"
    /\ UNCHANGED <<uploaded_files, tmp_file_path, temp_dir, temp_dirs, all_content,
                   origin, failed, abort_cause, combined_content>>
    /\ UNCHANGED <<ocr_vars, call_vars>>

\* lines 205-209
Combine ==
    /\ pc = "next_file"
    /\ file_idx > Len(uploaded_files)
    /\ combined_content' = combine_extracted_content(all_content)
    /\ pc' = "combined"
    /\ UNCHANGED <<uploaded_files, file_idx, tmp_file_path, tmp_files, temp_dir,
                   temp_dirs, all_content, origin, failed, abort_cause>>
    /\ UNCHANGED <<ocr_vars, call_vars>>

Next ==
    MakeTempDir \/ ExtractAll \/ RaiseFromZip \/ WalkZip \/ SaveUpload \/ ProcessUpload \/ UnlinkTmp \/ Combine

Spec == Init /\ [][Next]_vars

----------------------------------------------------------------------------
(* One call of _process_txt on any file of at most MaxBytes bytes *)

\* the bytes of the text files: line feed, "A", 0xE9 (latin-1 e acute),
\* 0x81 (undefined in cp1252), and 0xC3 0xA9 (UTF-8 e acute)
FileBytes == {10, 65, 233, 129, 195, 169}

TxtFiles == [bytes : UNION {[1..n -> FileBytes] : n \in 0..MaxBytes}]

InitTxt ==
    /\ call = "_process_txt"
    /\ arg \in TxtFiles
    /\ ret = None
    /\ local = None
    /\ OCRIdle
    /\ BatchIdle

CallProcessTxt ==
    /\ call = "_process_txt"
    /\ ret = None
    /\ ret' = process_txt(arg)
    /\ UNCHANGED <<call, arg, local>>
    /\ UNCHANGED <<ocr_vars, batch_vars>>

NextTxt == CallProcessTxt

SpecTxt == InitTxt /\ [][NextTxt]_vars

----------------------------------------------------------------------------
(* One call of _process_docx on a document with at most MaxRows table rows *)

\* the text of a cell: empty, blank, "A" and " B"
Cells == {<<>>, <<" ">>, <<"A">>, <<" ", "B">>}

Rows == [1..2 -> Cells]

\* no table, one table, or two tables with MaxRows rows at most in all
TableLayouts ==
    {<<>>}
    \cup UNION {{<<t>> : t \in [1..a -> Rows]} : a \in 0..MaxRows}
    \cup UNION {UNION {{<<t, u>> : t \in [1..a -> Rows], u \in [1..b -> Rows]} :
                       b \in 0..(MaxRows - a)} : a \in 0..MaxRows}

\* an embedded image that cannot be decoded, one the engine reads under
\* the first configuration only, and the two images of the batch
EmbeddedImages ==
    {PngUnreadable.data, PngAllRaise.data, JpgGood.data, DocxLetter.data.rels[2].blob,
     [loaded |-> TRUE, shape |-> Shape,
      attempts |-> <<Ok(<<"c","d"," ">>, <<60>>), Raises("image_to_string"),
                     Raises("preprocess"), Ok(<<>>, <<>>), Ok(<<"c","d"," ">>, <<0>>)>>]}

\* a relationship of the document part: not an image, an image whose
\* target part cannot be read, or an image with its bytes
Rels ==
    {[image |-> FALSE, external |-> FALSE], [image |-> TRUE, external |-> TRUE]}
    \cup {[image |-> TRUE, external |-> FALSE, blob |-> b] : b \in EmbeddedImages}

RelLists == UNION {[1..n -> Rels] : n \in 0..2}

DocxFiles ==
    {DocxLetter.data, DocxTablesOnly.data, DocxCorrupt.data}
    \cup [opens : {TRUE}, paragraphs : {<< <<"A">> >>}, tables : TableLayouts,
          rels : {<<>>}]
    \cup [opens : {TRUE}, paragraphs : {<< <<"A">> >>}, tables : {<<>>},
          rels : RelLists]

InitDocx ==
    /\ call = "_process_docx"
    /\ arg \in DocxFiles
    /\ ret = None
    /\ local = None
    /\ OCRIdle
    /\ BatchIdle

CallProcessDocx ==
    /\ call = "_process_docx"
    /\ ret = None
    /\ ret' = process_docx(arg)
    /\ UNCHANGED <<call, arg, local>>
    /\ UNCHANGED <<ocr_vars, batch_vars>>

NextDocx == CallProcessDocx

SpecDocx == InitDocx /\ [][NextDocx]_vars

----------------------------------------------------------------------------
(* One call of _process_eml on a message of at most MaxParts leaf parts *)

PartTypes == {"text/plain", "text/html"}

PartContents == {<<>>, <<"A">>, <<"<","p",">">>}

Leaves == [content_type : PartTypes, content : PartContents]

\* msg.walk() of a multipart message starts with the container
Container == [content_type |-> "multipart/mixed", content |-> <<>>]

\* `parts` is msg.walk(): the message itself when it is not multipart
EmlMessages ==
    {EmlMail.data, [EmlMail.data EXCEPT !.parses = FALSE]}
    \cup [parses : {TRUE}, subject : {<<>>, <<"A">>}, sender : {<<"A">>},
          recipient : {<<"A">>}, date : {<<"A">>}, multipart : {FALSE},
          parts : [1..1 -> Leaves]]
    \cup [parses : {TRUE}, subject : {<<>>, <<"A">>}, sender : {<<"A">>},
          recipient : {<<"A">>}, date : {<<"A">>}, multipart : {TRUE},
          parts : UNION {{<<Container>> \o leaves : leaves \in [1..n -> Leaves]} :
                         n \in 0..MaxParts}]

InitEml ==
    /\ call = "_process_eml"
    /\ arg \in EmlMessages
    /\ ret = None
    /\ local = None
    /\ OCRIdle
    /\ BatchIdle

CallProcessEml ==
    /\ call = "_process_eml"
    /\ ret = None
    /\ ret' = process_eml(arg)
    /\ UNCHANGED <<call, arg, local>>
    /\ UNCHANGED <<ocr_vars, batch_vars>>

NextEml == CallProcessEml

SpecEml == InitEml /\ [][NextEml]_vars

----------------------------------------------------------------------------
(* One call of _process_pdf on a file of at most MaxPages pages *)

\* what extract_text gives for a page: nothing, blanks, text, text with a
\* blank line in it
PageTexts == {<<>>, <<" ", "\n">>, <<"A">>, <<"A", "\n", "\n", "A">>}

PdfFiles ==
    {PdfBroken.data}
    \cup [opens : {TRUE}, pages : UNION {[1..n -> PageTexts] : n \in 0..MaxPages}]

InitPdf ==
    /\ call = "_process_pdf"
    /\ arg \in PdfFiles
    /\ ret = None
    /\ local = None
    /\ OCRIdle
    /\ BatchIdle

CallProcessPdf ==
    /\ call = "_process_pdf"
    /\ ret = None
    /\ ret' = process_pdf(arg)
    /\ UNCHANGED <<call, arg, local>>
    /\ UNCHANGED <<ocr_vars, batch_vars>>

NextPdf == CallProcessPdf

SpecPdf == InitPdf /\ [][NextPdf]_vars

----------------------------------------------------------------------------
(* One call of _clean_ocr_text on a text of at most MaxFragments fragments, *)
(* the replacements of lines 241-242 taken in any order                    *)

\* pieces of OCR output: two misread words, and 'Bene ficiary' in two
\* pieces, with one blank between them or two
Fragments ==
    { <<"g","a","t","e">>,
      <<"A","r","n","o","u","n","t">>,
      <<"B","e","n","e"," ">>,
      <<"f","i","c","i","a","r","y">>,
      <<" ","f","i","c","i","a","r","y">> }

OcrTexts == {flatten(fs) : fs \in UNION {[1..n -> Fragments] : n \in 0..MaxFragments}}

InitClean ==
    /\ call = "_clean_ocr_text"
    /\ arg \in [text : OcrTexts]
    /\ ret = None
    /\ local = [cleaned |-> arg.text, remaining |-> 1..Len(corrections)]
    /\ OCRIdle
    /\ BatchIdle

\* lines 225-226
ReturnEmpty ==
    /\ call = "_clean_ocr_text"
    /\ ret = None
    /\ arg.text = <<>>
    /\ ret' = [cleaned |-> <<>>]
    /\ UNCHANGED <<call, arg, local>>
    /\ UNCHANGED <<ocr_vars, batch_vars>>

\* lines 241-242: one iteration of the loop, for any correction not yet
\* applied
ApplyCorrection ==
    /\ call = "_clean_ocr_text"
    /\ ret = None
    /\ arg.text # <<>>
    /\ \E k \in local.remaining :
        local' = [cleaned   |-> replace(local.cleaned, corrections[k][1],
                                        corrections[k][2]),
                  remaining |-> local.remaining \ {k}]
    /\ UNCHANGED <<call, arg, ret>>
    /\ UNCHANGED <<ocr_vars, batch_vars>>

\* lines 245-247
CollapseWhitespace ==
    /\ call = "_clean_ocr_text"
    /\ ret = None
    /\ arg.text # <<>>
    /\ local.remaining = {}
    /\ ret' = [cleaned |-> join(<<" ">>, split(local.cleaned))]
    /\ UNCHANGED <<call, arg, local>>
    /\ UNCHANGED <<ocr_vars, batch_vars>>

NextClean == ReturnEmpty \/ ApplyCorrection \/ CollapseWhitespace

SpecClean == InitClean /\ [][NextClean]_vars

----------------------------------------------------------------------------
(* DocumentProcessor._preprocess_image: the resize of lines 371-377        *)
(*                                                                         *)
(* scale_factor and the products are IEEE-754 doubles.  With s the smaller *)
(* of height and width, scale_factor is the double nearest to 300/s: an    *)
(* integer q of 53 bits over 2^e, e = 52 - m, 2^m <= 300/s < 2^(m+1), with *)
(* q * s = 300 * 2^e - r and -s/2 <= r <= s/2.  A dimension d times        *)
(* scale_factor is 300*d/s - d*r/(s*2^e), rounded to the nearest double,   *)
(* and int() truncates it.  The numbers below are all small: 2^e is only   *)
(* used modulo 2*s.                                                        *)

MinSize == 300

RECURSIVE pow2(_)
pow2(k) == IF k = 0 THEN 1 ELSE 2 * pow2(k - 1)

\* 2^k modulo n
RECURSIVE pow2mod(_, _)
pow2mod(k, n) == IF k = 0 THEN 1 % n ELSE (2 * pow2mod(k - 1, n)) % n

\* the largest k with 2^k <= x, for x >= 1
RECURSIVE floor_log2(_)
floor_log2(x) == IF x < 2 THEN 0 ELSE 1 + floor_log2(x \div 2)

\* m with 2^m <= 300/s < 2^(m+1)
scale_exponent(s) == floor_log2(MinSize \div s)

\* r = 300 * 2^e - q * s for the 53-bit q nearest to 300 * 2^e / s, the
\* even one of two that are equally near
scale_remainder(s) ==
    LET x   == (MinSize * pow2mod(52 - scale_exponent(s), 2 * s)) % (2 * s)
        rho == x % s
    IN  IF 2 * rho < s THEN rho
        ELSE IF 2 * rho > s THEN rho - s
        ELSE IF x >= s THEN rho - s ELSE rho

\* int(d * scale_factor): floor(300*d/s), or one less when 300*d/s is an
\* integer N and the product falls below N by more than half the distance
\* between N and the double before it
scaled(d, s) ==
    LET N  == (MinSize * d) \div s
        r  == scale_remainder(s)
        n  == floor_log2(N)
        sp == IF N > pow2(n) THEN pow2(n - scale_exponent(s))
              ELSE pow2(n - scale_exponent(s) - 1)
    IN  IF (MinSize * d) % s # 0 \/ r <= 0 THEN N
        ELSE IF 2 * d * r > s * sp THEN N - 1 ELSE N

\* lines 372-377: the shape of the image handed to the blur
resized_shape(height, width) ==
    IF height < MinSize \/ width < MinSize
    THEN LET s == IF height <= width THEN height ELSE width
         IN  [height |-> scaled(height, s), width |-> scaled(width, s)]
    ELSE [height |-> height, width |-> width]

Shapes == [height : 1..MaxDim, width : {1, 150, 281, 299, 300, MaxDim}]

InitResize ==
    /\ call = "_preprocess_image"
    /\ arg \in Shapes
    /\ ret = None
    /\ local = None
    /\ OCRIdle
    /\ BatchIdle

CallResize ==
    /\ call = "_preprocess_image"
    /\ ret = None
    /\ ret' = resized_shape(arg.height, arg.width)
    /\ UNCHANGED <<call, arg, local>>
    /\ UNCHANGED <<ocr_vars, batch_vars>>

NextResize == CallResize

SpecResize == InitResize /\ [][NextResize]_vars

----------------------------------------------------------------------------
(* Claims about the OCR selection loop, checked under SpecOCR *)

CandText == strip(attempt.text)

CandConf == avg_confidence(attempt.conf)

\* C8: in a step of the loop the current best (text, confidence) becomes the
\* candidate's if the candidate's average confidence is strictly greater than
\* the best confidence and its text strictly longer than the best text, and
\* is left unchanged in every other case.
C8_SelectionRule ==
    [][(ocr_pc = "loop" /\ config_idx' = config_idx + 1) =>
          IF /\ attempt'.raises = "none"
             /\ Gt(avg_confidence(attempt'.conf), best_confidence)
             /\ Len(strip(attempt'.text)) > Len(best_text)
          THEN /\ best_text' = strip(attempt'.text)
               /\ best_confidence' = avg_confidence(attempt'.conf)
          ELSE UNCHANGED <<best_text, best_confidence>>]_vars

\* a later configuration was more confident than the best, its text was not
\* longer, and the best was kept
C8_Witness ==
    /\ ocr_pc = "loop"
    /\ config_idx > 2
    /\ attempt.raises = "none"
    /\ Gt(CandConf, best_confidence)
    /\ Len(CandText) <= Len(best_text)
    /\ best_text # <<>>

\* C9 as stated: after the first configuration completes without an engine
\* error, the best is that configuration's text and average confidence,
\* whatever they are.
C9_FirstConfigSeeds ==
    (ocr_pc = "loop" /\ config_idx = 2 /\ attempt.raises = "none") =>
        (best_text = CandText /\ best_confidence = CandConf)

\* C9 amended: after the first configuration completes without an engine
\* error, the best is that configuration's text and average confidence if
\* the text is non-empty and the confidence above 0, and is still ("", 0)
\* otherwise.
C9_FirstConfigSeedsIfPositive ==
    (ocr_pc = "loop" /\ config_idx = 2 /\ attempt.raises = "none") =>
        IF CandText # <<>> /\ Gt(CandConf, Zero)
        THEN best_text = CandText /\ best_confidence = CandConf
        ELSE best_text = <<>> /\ best_confidence = Zero

C9_Witness ==
    /\ ocr_pc = "loop"
    /\ config_idx = 2
    /\ attempt.raises = "none"
    /\ CandText # <<>>
    /\ best_text = CandText
    /\ best_confidence = CandConf
    /\ Gt(best_confidence, Zero)

\* C10: when every configuration raised, or every configuration returned
\* confidence 0, the image result has empty content, confidence 0 and an
\* error.
C10_OcrFailureReported ==
    (/\ ocr_pc = "returned"
     /\ image.loaded
     /\ (all_raised \/ all_zero)) =>
        /\ ocr_result.content = <<>>
        /\ ocr_result.ocr_confidence = Zero
        /\ "error" \in DOMAIN ocr_result

PositiveTokens(conf) == {i \in 1..Len(conf) : conf[i] > 0}

RECURSIVE SumAt(_, _)
SumAt(conf, S) ==
    IF S = {} THEN 0
    ELSE LET i == CHOOSE j \in S : TRUE IN conf[i] + SumAt(conf, S \ {i})

InRange(c) == c.den > 0 /\ 0 <= c.num /\ c.num <= 100 * c.den

\* C11: with token confidences in -1..100, an attempt's average confidence
\* is the sum of the tokens above 0 over their number (0 when there is
\* none), and the attempt's average and the best confidence are in 0..100
\* at every point of the loop.
C11_ConfidenceMeanInRange ==
    /\ InRange(best_confidence)
    /\ ("raises" \in DOMAIN attempt /\ attempt.raises = "none") =>
          LET P == PositiveTokens(attempt.conf)
          IN  /\ InRange(CandConf)
              /\ P = {} => CandConf.num = 0
              /\ P # {} => /\ CandConf.num = SumAt(attempt.conf, P)
                           /\ CandConf.den = Cardinality(P)

\* a configuration reported one token without confidence and one with
\* confidence 100, and became the best
C11_Witness ==
    /\ ocr_pc = "loop"
    /\ "raises" \in DOMAIN attempt
    /\ attempt.raises = "none"
    /\ attempt.conf = <<-1, 100>>
    /\ best_confidence = [num |-> 100, den |-> 1]
    /\ best_text = CandText

----------------------------------------------------------------------------
(* Claims about process_file and the batch, checked under Spec *)

Results == {all_content[k] : k \in 1..Len(all_content)}

IsStr(x) == x \in Seq(STRING)

\* C1: process_file never raises, whatever the path and whatever the
\* extractor does, and every result it returns has a string 'content'.
C1_ProcessFileNeverRaises ==
    /\ abort_cause # "process_file"
    /\ \A r \in Results :
          /\ ~is_raised(r)
          /\ "content" \in DOMAIN r
          /\ IsStr(r.content)

\* the results of a batch include the one of an extractor that raised and
\* the one of a file without a registered extractor
C1_Witness ==
    /\ pc = "combined"
    /\ \E r \in Results : "error" \in DOMAIN r /\ r.error = "PackageNotFoundError"
    /\ \E r \in Results : "error" \in DOMAIN r /\ r.error = "Unsupported file format"

\* C2: when the processing of the file at position k fails, every later
\* file is still processed and the batch reaches the aggregation.
C2_BatchIsolation ==
    \A k \in failed :
        (pc \in {"combined", "aborted"} /\ abort_cause # "write") =>
            /\ pc = "combined"
            /\ \A j \in (k + 1)..Len(uploaded_files) : j < file_idx

\* C3: a file whose lowercase extension has no registered extractor gets
\* empty content and the unsupported-format error, whatever the file holds:
\* no extractor has read it, and nothing is raised.
C3_UnsupportedFormat ==
    /\ abort_cause # "process_file"
    /\ \A r \in Results :
          (~is_raised(r) /\ lower(r.file_path.ext) \notin DOMAIN supported_formats) =>
              /\ r.content = <<>>
              /\ "error" \in DOMAIN r
              /\ r.error = "Unsupported file format"
              /\ DOMAIN r = {"content", "error", "file_path", "file_type"}

\* a .bin upload whose bytes the text extractor could read, and an upload
\* named .ZIP, have been processed
C3_Witness ==
    /\ pc = "combined"
    /\ \E r \in Results : r.file_type = ".bin" /\ r.content = <<>>
    /\ \E r \in Results : r.file_type = ".zip" /\ r.content = <<>>

\* C4: in every result of process_file, 'error' is set if and only if the
\* content is empty.
C4_ErrorIffNoContent ==
    \A r \in Results : ("error" \in DOMAIN r) <=> (r.content = <<>>)

IsHeader(p) == p.piece = "header"

IsContent(p) == p.piece = "content"

IsTables(p) == p.piece = "tables"

IsImageText(p) == p.piece = "image_text"

HasContent(k) == all_content[k].content # <<>>

HasContentAndTables(k) ==
    HasContent(k) /\ get(all_content[k], "tables", <<>>) # <<>>

HasContentAndImageText(k) ==
    HasContent(k) /\ get(all_content[k], "image_text", <<>>) # <<>>

Positions == [k \in 1..Len(all_content) |-> k]

\* the positions in all_content of the entries with non-empty content
ContentEntries == SelectSeq(Positions, HasContent)

\* C5: the corpus has one header per entry with non-empty content, in input
\* order, and an entry with empty content contributes no header, no Tables
\* block and no Image Text block.
C5_EmptyContentContributesNothing ==
    pc = "combined" =>
        /\ Len(SelectSeq(combined_content, IsHeader)) = Len(ContentEntries)
        /\ \A j \in 1..Len(ContentEntries) :
              SelectSeq(combined_content, IsContent)[j].text
                  = all_content[ContentEntries[j]].content
        /\ Len(SelectSeq(combined_content, IsTables))
              = Len(SelectSeq(Positions, HasContentAndTables))
        /\ Len(SelectSeq(combined_content, IsImageText))
              = Len(SelectSeq(Positions, HasContentAndImageText))

\* C6: the results are collected in submission order, those of one archive
\* together at the archive's position, and the contents of the corpus are
\* the non-empty contents of the results in that order.
C6_CorpusOrder ==
    /\ Len(origin) = Len(all_content)
    /\ \A a, b \in 1..Len(origin) : a < b => origin[a] <= origin[b]
    /\ pc = "combined" =>
          /\ Len(SelectSeq(combined_content, IsContent)) = Len(ContentEntries)
          /\ \A j \in 1..Len(ContentEntries) :
                SelectSeq(combined_content, IsContent)[j].text
                    = all_content[ContentEntries[j]].content

\* a corpus with the contents of two members of an archive followed by the
\* content of a later upload
C6_Witness ==
    /\ pc = "combined"
    /\ Len(origin) = 4
    /\ origin[1] = 1 /\ origin[2] = 1 /\ origin[3] = 1 /\ origin[4] = 2
    /\ Len(ContentEntries) = 3
    /\ all_content[4].content # <<>>

\* C7: the header of the corpus segment of an upload that is not an archive
\* carries the name under which the file was uploaded.
C7_HeaderNamesUpload ==
    pc = "combined" =>
        /\ Len(SelectSeq(combined_content, IsHeader)) = Len(ContentEntries)
        /\ \A j \in 1..Len(ContentEntries) :
              ~is_zip(uploaded_files[origin[ContentEntries[j]]]) =>
                  SelectSeq(combined_content, IsHeader)[j].name
                      = uploaded_files[origin[ContentEntries[j]]].name

----------------------------------------------------------------------------
(* Claims about temporary storage and archives, checked under Spec *)

\* C12: the temporary file of a non-archive upload no longer exists when
\* the next file begins and when process_files returns, whether the write,
\* the extraction or a later step succeeds or raises; there is never more
\* than one such file.
C12_TmpFileReleased ==
    /\ pc \in {"next_file", "combined", "aborted"} => tmp_files = {}
    /\ Cardinality(tmp_files) <= 1

InZip == pc \in {"zip_dir", "zip_walk", "zip_raised"}

\* C13: outside process_zip_file no scratch directory exists: it is removed
\* with what is in it when the function returns and when opening,
\* extracting or walking raises.
C13_ScratchRemoved == ~InZip => temp_dirs = {}

\* extractall raised on an archive that opens, and process_files is in its
\* except clause
C13_Witness ==
    /\ pc = "aborted"
    /\ abort_cause = "archive"
    /\ uploaded_file.data.opens
    /\ uploaded_file.data.members # <<>>
    /\ temp_dirs = {}

Expanded == {k \in 1..Len(uploaded_files) : k < file_idx /\ is_zip(uploaded_files[k])}

ResultsOf(k) == {i \in 1..Len(all_content) : origin[i] = k}

IsRegistered(member) == lower(member.name.ext) \in DOMAIN supported_formats

\* the result i is the one the extractor registered for the member's
\* lowercase extension gives for the member
IsResultOf(i, member) ==
    LET file_ext == lower(member.name.ext)
        out      == call_extractor(supported_formats[file_ext], member.data)
    IN  /\ all_content[i].file_path =
              [dir |-> temp_dir.path \o member.dir, stem |-> member.name.stem,
               ext |-> member.name.ext]
        /\ all_content[i].file_type = file_ext
        /\ IF is_raised(out) THEN "error" \in DOMAIN all_content[i]
           ELSE \A key \in DOMAIN out :
                   key \in DOMAIN all_content[i] /\ all_content[i][key] = out[key]

\* C14: an expanded archive has exactly one result for each contained file,
\* at any depth, whose lowercase extension is registered, and it is the
\* output of the extractor of that extension; the other contained files
\* have no result.
C14_OneResultPerRegisteredMember ==
    \A k \in Expanded :
        LET members == uploaded_files[k].data.members
            M       == {m \in 1..Len(members) : IsRegistered(members[m])}
        IN  /\ Cardinality(ResultsOf(k)) = Cardinality(M)
            /\ \A m \in M :
                  Cardinality({i \in ResultsOf(k) : IsResultOf(i, members[m])}) = 1
            /\ \A i \in ResultsOf(k) : \E m \in M : IsResultOf(i, members[m])

\* the archive with a.txt, b.PNG and inner.zip in its root and c.bin and
\* d.json in a subdirectory was expanded into three results
C14_Witness ==
    /\ pc = "combined"
    /\ uploaded_files = <<ZipBundle>>
    /\ Len(all_content) = 3
    /\ \E i \in 1..3 : all_content[i].file_type = ".png" /\ "ocr_method" \in DOMAIN all_content[i]
    /\ \E i \in 1..3 : all_content[i].file_type = ".txt" /\ "line_count" \in DOMAIN all_content[i]
    /\ \E i \in 1..3 : all_content[i].file_type = ".json" /\ "error" \in DOMAIN all_content[i]

\* C15: an archive that cannot be opened or extracted leaves process_files
\* in its loop, with a result carrying an error for that archive in
\* all_content; its exception never reaches the except clause of
\* process_files.
C15_ArchiveErrorCaptured ==
    /\ abort_cause # "archive"
    /\ \A k \in Expanded :
          ~uploaded_files[k].data.opens =>
              \E i \in ResultsOf(k) : "error" \in DOMAIN all_content[i]

\* C16: a file whose extension is a case variant of a registered one is
\* never refused as unsupported, and an upload whose extension is a case
\* variant of .zip is expanded: no result for it comes from handing the
\* upload itself to process_file.
C16_ExtensionCaseInsensitive ==
    /\ \A i \in 1..Len(all_content) :
          lower(all_content[i].file_path.ext) \in DOMAIN supported_formats =>
              get(all_content[i], "error", "none") # "Unsupported file format"
    /\ \A k \in 1..Len(uploaded_files) :
          (k < file_idx /\ lower(uploaded_files[k].name.ext) = ".zip") =>
              \A i \in ResultsOf(k) : all_content[i].file_path.dir # "tmp"

----------------------------------------------------------------------------
(* Claims about _process_txt, checked under SpecTxt *)

EncodingOrder == <<"utf-8", "latin-1", "cp1252", "iso-8859-1">>

Winners(bytes) == {k \in 1..Len(EncodingOrder) : decode(EncodingOrder[k], bytes).ok}

FirstWinner(bytes) == CHOOSE k \in Winners(bytes) : \A j \in Winners(bytes) : k <= j

TxtReturned == call = "_process_txt" /\ ret # None

\* the content is the decoding under the first encoding that succeeds, and
\* empty with an error when none does
ContentOfFirstWinner ==
    IF Winners(arg.bytes) = {}
    THEN ret.content = <<>> /\ "error" \in DOMAIN ret
    ELSE /\ ret.content = decode(EncodingOrder[FirstWinner(arg.bytes)], arg.bytes).text
         /\ "error" \notin DOMAIN ret

IsUtf8(bytes) == decode("utf-8", bytes).ok

\* C18: a text file whose bytes are not valid UTF-8 is returned with the
\* latin-1 decoding of its bytes, encoding_used "latin-1" and no error.
C18_NonUtf8IsLatin1 ==
    (TxtReturned /\ ~IsUtf8(arg.bytes)) =>
        /\ "error" \notin DOMAIN ret
        /\ "encoding_used" \in DOMAIN ret
        /\ ret.encoding_used = "latin-1"
        /\ ret.content = decode_bytewise(arg.bytes)

\* a file with the byte 0x81, which cp1252 cannot decode, and a truncated
\* UTF-8 sequence
C18_Witness ==
    /\ TxtReturned
    /\ arg.bytes = <<129, 10, 195>>
    /\ ret.encoding_used = "latin-1"
    /\ ret.line_count = 2

----------------------------------------------------------------------------
(* Claims about _process_docx, checked under SpecDocx *)

DocxReturned == call = "_process_docx" /\ "content" \in DOMAIN ret

HasNonEmptyCell(row) == \E c \in 1..Len(row) : strip(row[c]) # <<>>

\* the rows of the document, table after table
DocumentRows == flatten(arg.tables)

\* the cells of a row, stripped, with " | " between two of them
RowString(row) ==
    LET Cell(c) == IF c = 1 THEN strip(row[c]) ELSE SEPBAR \o strip(row[c])
    IN  flatten([c \in 1..Len(row) |-> Cell(c)])

\* C19: 'tables' has one string for each table row with a cell that is not
\* empty once stripped, the row's stripped cells joined by " | " in cell
\* order, in the order of the rows across all the tables; a row whose cells
\* are all empty has no entry.
C19_TableRows ==
    DocxReturned =>
        LET kept == SelectSeq(DocumentRows, HasNonEmptyCell)
        IN  /\ Len(ret.tables) = Len(kept)
            /\ \A j \in 1..Len(kept) : ret.tables[j] = RowString(kept[j])

\* the 2x2 table A, B, C, D gave "A | B" then "C | D"
C19_Witness ==
    /\ DocxReturned
    /\ arg = DocxTablesOnly.data
    /\ ret.tables = << <<"A"," ","|"," ","B">>, <<"C"," ","|"," ","D">> >>

\* another document: a blank row in the first table, a row in the second
C19_WitnessSkipped ==
    /\ DocxReturned
    /\ Len(arg.tables) = 2
    /\ arg.tables[1] = << << <<" ">>, <<>> >> >>
    /\ arg.tables[2] = << << <<" ","B">>, <<"A">> >> >>
    /\ ret.tables = << <<"B"," ","|"," ","A">> >>

\* what _process_image returns as content for the embedded images, up to
\* the first one whose part cannot be read
RECURSIVE standalone_texts(_)
standalone_texts(rels) ==
    IF rels = <<>> THEN <<>>
    ELSE IF ~Head(rels).image THEN standalone_texts(Tail(rels))
    ELSE IF Head(rels).external THEN <<>>
    ELSE LET content == process_image(Head(rels).blob).content
         IN  (IF content # <<>> THEN <<content>> ELSE <<>>)
             \o standalone_texts(Tail(rels))

\* C20: the string in image_text for an embedded image is the content
\* _process_image returns for the same image (preprocessing, selection
\* over the five configurations, then _clean_ocr_text).
C20_EmbeddedSameAsStandalone ==
    DocxReturned => ret.image_text = standalone_texts(arg.rels)

\* the relationships the loop of lines 93-99 reaches: up to the first image
\* whose part cannot be read
Reached(rels) ==
    LET stops == {i \in 1..Len(rels) : rels[i].image /\ rels[i].external}
    IN  IF stops = {} THEN 1..Len(rels)
        ELSE 1..(CHOOSE i \in stops : \A j \in stops : i <= j)

\* the embedded image cannot be decoded, or the engine raises on it
ImageFails(blob) ==
    \/ ~blob.loaded
    \/ blob.attempts[1].raises \in {"preprocess", "image_to_string"}

FailedImages(rels) ==
    {i \in Reached(rels) : rels[i].image /\ (rels[i].external \/ ImageFails(rels[i].blob))}

EmbeddedFailure ==
    /\ call = "_process_docx"
    /\ ret # None
    /\ arg.opens
    /\ FailedImages(arg.rels) # {}

\* the document is returned, without an error and with the content and the
\* tables of the same document without its relationships
DocumentUnharmed ==
    /\ "content" \in DOMAIN ret
    /\ "error" \notin DOMAIN ret
    /\ ret.content = process_docx([arg EXCEPT !.rels = <<>>]).content
    /\ ret.tables = process_docx([arg EXCEPT !.rels = <<>>]).tables

\* C21: when the extraction of an embedded image fails, the document is
\* returned without an error, with the content and tables it would have
\* without the failure, and with an empty image_text.
C21_ImageFailureEmptiesImageText ==
    EmbeddedFailure => (DocumentUnharmed /\ ret.image_text = <<>>)

\* the text of the images that were reached and did not fail, in order
RECURSIVE surviving_texts(_, _)
surviving_texts(rels, i) ==
    IF i > Len(rels) THEN <<>>
    ELSE (IF /\ i \in Reached(rels) \ FailedImages(rels)
             /\ rels[i].image
             /\ strip(rels[i].blob.attempts[1].text) # <<>>
          THEN <<strip(rels[i].blob.attempts[1].text)>> ELSE <<>>)
         \o surviving_texts(rels, i + 1)

\* C21, amended: when the extraction of an embedded image fails, the
\* document is returned without an error and with the content and tables
\* it would have without the failure; image_text holds the texts of the
\* images read before the loop was stopped, and nothing for a failed image.
C21_ImageFailureKeepsDocument ==
    EmbeddedFailure => (DocumentUnharmed /\ ret.image_text = surviving_texts(arg.rels, 1))

\* an image was read, then the part of the next one could not be
C21_Witness ==
    /\ EmbeddedFailure
    /\ Len(arg.rels) = 2
    /\ arg.rels[1] = DocxLetter.data.rels[2]
    /\ arg.rels[2].image /\ arg.rels[2].external
    /\ ret.image_text = << <<"c","d">> >>

----------------------------------------------------------------------------
(* Claims about _process_eml, checked under SpecEml *)

EmlReturned == call = "_process_eml" /\ ret # None /\ arg.parses

\* the contents of the text/plain parts from the i-th part of the walk on
RECURSIVE plain_text_from(_, _)
plain_text_from(parts, i) ==
    IF i > Len(parts) THEN <<>>
    ELSE (IF parts[i].content_type = "text/plain" THEN parts[i].content ELSE <<>>)
         \o plain_text_from(parts, i + 1)

Headers ==
    SUBJECT \o arg.subject \o <<"\n">> \o FROM \o arg.sender \o <<"\n">> \o TO
    \o arg.recipient \o <<"\n">> \o DATE \o arg.date \o <<"\n", "\n">>

\* C22: the body in the content is the concatenation, in walk order, of the
\* text/plain parts of the message, multipart or not; the content of a part
\* of another type is not in it.
C22_BodyIsPlainTextParts ==
    EmlReturned => ret.content = Headers \o BODY \o plain_text_from(arg.parts, 1)

----------------------------------------------------------------------------
(* Claims about _process_pdf, checked under SpecPdf *)

PdfReturned == call = "_process_pdf" /\ ret # None /\ arg.opens

\* the segment of page k
Segment(k) ==
    IF \E i \in 1..Len(arg.pages[k]) : arg.pages[k][i] \notin Whitespace
    THEN PAGE \o <<DIGITS[k], ":", "\n">> \o arg.pages[k]
    ELSE PAGE \o <<DIGITS[k], ":", " ">> \o OCRNEEDED

\* the segments of pages k..n with a blank line between two of them
RECURSIVE SegmentsFrom(_)
SegmentsFrom(k) ==
    IF k > Len(arg.pages) THEN <<>>
    ELSE IF k = Len(arg.pages) THEN Segment(k)
    ELSE Segment(k) \o <<"\n", "\n">> \o SegmentsFrom(k + 1)

----------------------------------------------------------------------------
(* Claims about _clean_ocr_text, checked under SpecClean *)

CleanReturned == call = "_clean_ocr_text" /\ ret # None

\* C24: whatever the order in which the eight replacements were applied,
\* the text returned after the whitespace is collapsed is the one the
\* dict's own order gives.
C24_OrderIndependent ==
    CleanReturned => ret.cleaned = clean_ocr_text(arg.text)

\* two misread words and a split 'Bene ficiary' were corrected
C24_Witness ==
    /\ CleanReturned
    /\ arg.text = <<"g","a","t","e">> \o <<"B","e","n","e"," ">>
                  \o <<"f","i","c","i","a","r","y">>
    /\ ret.cleaned = <<"d","a","t","e","B","e","n","e","f","i","c","i","a","r","y">>

\* C29: cleaning a cleaned text changes nothing.
C29_Idempotent ==
    CleanReturned => clean_ocr_text(ret.cleaned) = ret.cleaned

----------------------------------------------------------------------------
(* Claims about _preprocess_image, checked under SpecResize *)

Resized == call = "_preprocess_image" /\ ret # None

Smaller(shape) == IF shape.height <= shape.width THEN shape.height ELSE shape.width

Larger(shape) == IF shape.height <= shape.width THEN shape.width ELSE shape.height

\* C25: an image with a dimension below 300 is resized so that its smaller
\* dimension is exactly 300 and its larger one is at least 300, each being
\* the dimension times 300/min(h, w), truncated; an image with both
\* dimensions at 300 or more keeps them; no dimension is below 300 after
\* the step.
C25_UpscaleTo300 ==
    Resized =>
        /\ IF arg.height < 300 \/ arg.width < 300
           THEN /\ Smaller(ret) = 300
                /\ Larger(ret) >= 300
                /\ ret.height = (300 * arg.height) \div Smaller(arg)
                /\ ret.width = (300 * arg.width) \div Smaller(arg)
           ELSE ret = arg
        /\ ret.height >= 300
        /\ ret.width >= 300

----------------------------------------------------------------------------
(* More claims about the OCR selection loop, checked under SpecOCR *)

AttemptCompleted == "raises" \in DOMAIN attempt /\ attempt.raises = "none"

AttemptRaised == "raises" \in DOMAIN attempt /\ attempt.raises # "none"

\* C26: the result selected can be less confident than an attempt of the
\* same run.  Whenever the configuration just run is more confident than
\* the best that is kept, the text that is kept is at least as long as that
\* configuration's: this is the only way a more confident attempt is lost,
\* and C26_Witness is a run in which it is lost.
C26_MoreConfidentLostToLonger ==
    (AttemptCompleted /\ Gt(CandConf, best_confidence)) =>
        Len(best_text) >= Len(CandText)

\* the five configurations are done; the result returned is an earlier,
\* longer text, and the last configuration was strictly more confident
C26_Witness ==
    /\ ocr_pc = "returned"
    /\ AttemptCompleted
    /\ CandText # <<>>
    /\ Len(CandText) < Len(best_text)
    /\ "error" \notin DOMAIN ocr_result
    /\ ocr_result.ocr_confidence = best_confidence
    /\ Gt(CandConf, ocr_result.ocr_confidence)
    /\ Gt(best_confidence, Zero)

\* C27: in every step of the loop the best is left as it was or becomes the
\* text and confidence of the configuration just run, so that it is always
\* ("", 0) or the pair of one attempt; neither the best confidence nor the
\* length of the best text decreases; and the best text is empty exactly
\* when the best confidence is 0.
C27_LoopInvariant ==
    /\ [](ocr_pc \in {"loop", "returned"} =>
             ((best_text = <<>>) <=> (best_confidence.num = 0)))
    /\ [][ocr_pc = "loop" =>
             /\ \/ UNCHANGED <<best_text, best_confidence>>
                \/ /\ attempt'.raises = "none"
                   /\ best_text' = strip(attempt'.text)
                   /\ best_confidence' = avg_confidence(attempt'.conf)
             /\ ~Gt(best_confidence, best_confidence')
             /\ Len(best_text') >= Len(best_text)]_vars

\* a configuration after the first gave the longest text with the highest
\* confidence and became the best
C27_Witness ==
    /\ ocr_pc = "loop"
    /\ config_idx > 2
    /\ AttemptCompleted
    /\ best_text = CandText
    /\ best_confidence = CandConf
    /\ Len(best_text) = 7
    /\ best_confidence = [num |-> 100, den |-> 1]
    /\ ~all_zero

\* C28: a configuration that raises leaves the best text and confidence as
\* they were and the loop goes on to the next configuration; the result is
\* returned after the five configurations and has no error when the image
\* was loaded.
C28_FailureIsolated ==
    /\ []((ocr_pc = "returned" /\ image.loaded) =>
             (config_idx = Len(ocr_configs) + 1 /\ "error" \notin DOMAIN ocr_result))
    /\ [][(ocr_pc = "loop" /\ config_idx' = config_idx + 1 /\ attempt'.raises # "none") =>
             /\ UNCHANGED <<best_text, best_confidence>>
             /\ ocr_pc' = "loop"]_vars

\* a configuration gave a text, the last one raised, and the text is
\* returned
C28_Witness ==
    /\ ocr_pc = "returned"
    /\ image.loaded
    /\ AttemptRaised
    /\ ~all_raised
    /\ best_text # <<>>
    /\ ocr_result.content = clean_ocr_text(best_text)
    /\ "error" \notin DOMAIN ocr_result

----------------------------------------------------------------------------
(* A claim about nested archives, checked under Spec *)

\* the archives contained in the archive submitted at position k
NestedArchives(k) ==
    {m \in 1..Len(uploaded_files[k].data.members) :
        lower(uploaded_files[k].data.members[m].name.ext) = ".zip"}

\* the names of the files inside the contained archive m
NestedNames(k, m) ==
    LET inner == uploaded_files[k].data.members[m].data.members
    IN  {inner[j].name : j \in 1..Len(inner)}

\* C30: a .zip file contained in a submitted archive is not expanded: the
\* batch has no result and no error entry for it, nor for a file inside it.
C30_NestedArchiveSkipped ==
    \A k \in Expanded : \A m \in NestedArchives(k) : \A i \in ResultsOf(k) :
        /\ all_content[i].file_type # ".zip"
        /\ [stem |-> all_content[i].file_path.stem, ext |-> all_content[i].file_path.ext]
              # uploaded_files[k].data.members[m].name
        /\ [stem |-> all_content[i].file_path.stem, ext |-> all_content[i].file_path.ext]
              \notin NestedNames(k, m)

\* the archive holding inner.zip, which holds e.txt, was expanded and the
\* batch combined: its results are those of a.txt, b.PNG and d.json
C30_Witness ==
    /\ pc = "combined"
    /\ uploaded_files = <<ZipBundle>>
    /\ NestedArchives(1) # {}
    /\ \E m \in NestedArchives(1) : NestedNames(1, m) # {}
    /\ {all_content[i].file_path.stem : i \in 1..Len(all_content)} = {"a", "b", "d"}

====
